---- MODULE Spec2Model ----
(***************************************************************************)
(* ISTools: the intersection-vertex pass (intersection_line.py) and the    *)
(* line extender (extend_lines.py) as state machines over a small world of *)
(* line layers whose features are polylines on an integer grid.            *)
(*                                                                         *)
(* Geometry is exact: every vertex is an integer point, every segment of   *)
(* the input shapes is horizontal, vertical or diagonal, and the diagonal  *)
(* shapes have x+y even, so that every crossing of two segments is again   *)
(* an integer point.  A layer's CRS is a translation of the project CRS.   *)
(***************************************************************************)
EXTENDS Integers, Sequences, FiniteSets, TLC

\* ------------------------------------------------------------------ bounds
\* Coordinates of the project CRS run over 0..GridMax.
GridMax == 5
\* At most this many features exist in the project.
MaxFeat == 3
\* The map tolerance (2 pixels in map units) is one of 1..MaxTol.
MaxTol == 2
\* At most this many rectangle passes are run in a row.
MaxPasses == 2
\* At most this many runs of the extender are made in a row.
MaxRuns == 2
\* Coordinates of the extender's world run over 0..ExtGridMax.
ExtGridMax == 7

\* The largest number of features selected for one run of the extender.
MaxSel == 2
\* The longest tuple handed to translate.
MaxItems == 2
\* At most this many right-button presses are made on the rectangle tool.
MaxCancels == 1

\* ------------------------------------------------------------ plain helpers
Sq(n) == n * n

SetMin(S) == CHOOSE x \in S : \A y \in S : x <= y

SetMax(S) == CHOOSE x \in S : \A y \in S : y <= x

RECURSIVE SumOver(_, _)
SumOver(f, S) ==
    IF S = {} THEN 0
    ELSE LET x == CHOOSE y \in S : TRUE IN f[x] + SumOver(f, S \ {x})

\* All orderings of a finite set, as sequences.
RECURSIVE Orderings(_)
Orderings(S) ==
    IF S = {} THEN { << >> }
    ELSE UNION { { <<x>> \o s : s \in Orderings(S \ {x}) } : x \in S }

InsertAt(s, i, e) == SubSeq(s, 1, i - 1) \o <<e>> \o SubSeq(s, i, Len(s))

\* ---------------------------------------------------------------- geometry
\* A point is <<x, y>>; a geometry is [multi, parts], parts a sequence of
\* vertex sequences (one part unless multi).  The empty geometry has no part.
Dist2(p, q) == Sq(p[1] - q[1]) + Sq(p[2] - q[2])

Cross(o, a, b) == (a[1] - o[1]) * (b[2] - o[2]) - (a[2] - o[2]) * (b[1] - o[1])

Dot(o, a, b) == (a[1] - o[1]) * (b[1] - o[1]) + (a[2] - o[2]) * (b[2] - o[2])

Line(pts) == [multi |-> FALSE, parts |-> <<pts>>]

MultiLine(ps) == [multi |-> TRUE, parts |-> ps]

EmptyGeom == [multi |-> FALSE, parts |-> << >>]

IsEmpty(g) == \A k \in 1..Len(g.parts) : Len(g.parts[k]) = 0

\* QgsGeometry.isGeosValid for a line: every part has two distinct points.
IsGeosValid(g) ==
    \A k \in 1..Len(g.parts) :
        \E i, j \in 1..Len(g.parts[k]) : g.parts[k][i] # g.parts[k][j]

Vertices(g) == UNION { { g.parts[k][i] : i \in 1..Len(g.parts[k]) } : k \in 1..Len(g.parts) }

NumVertices(g) == SumOver([k \in 1..Len(g.parts) |-> Len(g.parts[k])], 1..Len(g.parts))

\* The segments of a geometry, as <<part, index of the start vertex>>.
SegIds(g) == UNION { { <<k, i>> : i \in 1..(Len(g.parts[k]) - 1) } : k \in 1..Len(g.parts) }

SegA(g, s) == g.parts[s[1]][s[2]]

SegB(g, s) == g.parts[s[1]][s[2] + 1]

\* p lies on the closed segment a-b.
OnSegment(p, a, b) == Cross(a, b, p) = 0 /\ Dot(p, a, b) <= 0

OnGeom(p, g) ==
    \/ \E s \in SegIds(g) : OnSegment(p, SegA(g, s), SegB(g, s))
    \/ \E k \in 1..Len(g.parts) : Len(g.parts[k]) = 1 /\ g.parts[k][1] = p

Translate(g, d) ==
    [multi |-> g.multi,
     parts |-> [k \in 1..Len(g.parts) |->
                   [i \in 1..Len(g.parts[k]) |->
                       <<g.parts[k][i][1] + d[1], g.parts[k][i][2] + d[2]>>]]]

\* Bounding boxes and rectangles are [x1, y1, x2, y2] with x1 <= x2, y1 <= y2.
BBox(g) ==
    LET xs == { v[1] : v \in Vertices(g) }
        ys == { v[2] : v \in Vertices(g) }
    IN [x1 |-> SetMin(xs), y1 |-> SetMin(ys), x2 |-> SetMax(xs), y2 |-> SetMax(ys)]

\* QgsRectangle.intersects
RectsIntersect(r, q) == r.x1 <= q.x2 /\ q.x1 <= r.x2 /\ r.y1 <= q.y2 /\ q.y1 <= r.y2

InRect(p, r) == r.x1 <= p[1] /\ p[1] <= r.x2 /\ r.y1 <= p[2] /\ p[2] <= r.y2

TranslateRect(r, d) ==
    [x1 |-> r.x1 + d[1], y1 |-> r.y1 + d[2], x2 |-> r.x2 + d[1], y2 |-> r.y2 + d[2]]

\* The integer points of the project plane that a geometry can pass through.
Lattice == (0..GridMax) \X (0..GridMax)

\* QgsGeometry.intersects for two line geometries, and for a line and the
\* rectangle's polygon.  Exact on the grid: see the header.
GeomsIntersect(gA, gB) == \E p \in Lattice : OnGeom(p, gA) /\ OnGeom(p, gB)

GeomIntersectsRect(g, r) == \E p \in Lattice : OnGeom(p, g) /\ InRect(p, r)

\* The unit pieces <<p, q>> of the grid that lie on one segment of g.
UnitDirs == { <<1, 0>>, <<0, 1>>, <<1, 1>>, <<1, -1>> }

UnitPieces == { <<p, <<p[1] + d[1], p[2] + d[2]>>>> : p \in Lattice, d \in UnitDirs }

PieceOnGeom(pc, g) ==
    \E s \in SegIds(g) :
        OnSegment(pc[1], SegA(g, s), SegB(g, s)) /\ OnSegment(pc[2], SegA(g, s), SegB(g, s))

\* QgsGeometry.intersection of two line geometries: the isolated points they
\* share and the unit pieces along which they overlap.
Intersection(gA, gB) ==
    LET pieces == { pc \in UnitPieces : PieceOnGeom(pc, gA) /\ PieceOnGeom(pc, gB) }
        onLine == { pc[1] : pc \in pieces } \cup { pc[2] : pc \in pieces }
        shared == { p \in Lattice : OnGeom(p, gA) /\ OnGeom(p, gB) }
    IN [points |-> shared \ onLine, pieces |-> pieces]

InterIsEmpty(inter) == inter.points = {} /\ inter.pieces = {}

\* QgsGeometry.boundary of a (multi)linestring: the end points met by an odd
\* number of pieces.
LineBoundary(pieces) ==
    { p \in { pc[1] : pc \in pieces } \cup { pc[2] : pc \in pieces } :
        Cardinality({ pc \in pieces : pc[1] = p \/ pc[2] = p }) % 2 = 1 }

\* ------------------------------------------------- the world of the model
\* The project's layers in the order of QgsProject.mapLayers(); all of them
\* are valid line layers.
Layers == <<"L1", "L2">>

LayerSet == { Layers[i] : i \in 1..Len(Layers) }

\* The translation from the project CRS to a layer's CRS.
CrsOffset(l) == IF l = "L1" THEN <<0, 0>> ELSE <<7, 3>>

\* The line shapes a feature can have, in project coordinates.  A feature's
\* id is its place in this list; odd ids live in L1, even ids in L2.
Catalogue ==
    << Line(<< <<0, 2>>, <<5, 2>> >>),
       Line(<< <<2, 0>>, <<2, 4>> >>),
       Line(<< <<0, 0>>, <<4, 4>> >>),
       Line(<< <<3, 0>>, <<3, 4>> >>),
       Line(<< <<1, 2>>, <<3, 2>>, <<3, 4>> >>),
       MultiLine(<< << <<2, 2>>, <<4, 2>> >>, << <<0, 3>>, <<4, 3>> >> >>) >>

FeatIds == 1..Len(Catalogue)

LayerOf(f) == Layers[((f - 1) % Len(Layers)) + 1]

\* The rectangles a drag can select (project CRS).
Rects ==
    { [x1 |-> 0, y1 |-> 0, x2 |-> 4, y2 |-> 4],
      [x1 |-> 0, y1 |-> 3, x2 |-> 2, y2 |-> 5] }

\* A layer is being edited, can be put into edit mode, refuses to be
\* (read-only provider), or is hidden in the layer tree (and then refuses
\* too, when the extender asks).
LayerSetups ==
    { [l \in LayerSet |-> "editing"],
      [l \in LayerSet |-> IF l = "L1" THEN "editing" ELSE "startable"],
      [l \in LayerSet |-> IF l = "L1" THEN "editing" ELSE "readonly"],
      [l \in LayerSet |-> IF l = "L1" THEN "hidden" ELSE "readonly"] }

\* ------------------------------------- intersection_line.py: the helpers
\* QgsCoordinateTransform of a layer, project -> layer and back.
FromProj(l, p) == <<p[1] + CrsOffset(l)[1], p[2] + CrsOffset(l)[2]>>

ToProj(l, p) == <<p[1] - CrsOffset(l)[1], p[2] - CrsOffset(l)[2]>>

GeomToProj(l, g) == Translate(g, <<0 - CrsOffset(l)[1], 0 - CrsOffset(l)[2]>>)

GeomFromProj(l, g) == Translate(g, CrsOffset(l))

RectFromProj(l, r) == TranslateRect(r, CrsOffset(l))

ISqrt(n) == CHOOSE k \in 0..n : k * k <= n /\ n < (k + 1) * (k + 1)

\* from_proj.transform of a point inside try/except: in the layers of fails
\* the transform throws and the point stays as it was, in project coordinates.
TryFromProj(fails, l, p) == IF l \in fails THEN p ELSE FromProj(l, p)

TolInLayerUnits(fails, l, tolProj, ref) ==
    LET p1 == FromProj(l, ref)
        p2 == FromProj(l, <<ref[1] + tolProj, ref[2]>>)
        d  == ISqrt(Dist2(p1, p2))
    IN IF l \in fails THEN tolProj
       ELSE IF d > 0 THEN d ELSE tolProj

CollectPointsFromIntersection(inter) ==
    IF InterIsEmpty(inter) THEN {}
    ELSE IF inter.pieces = {} THEN inter.points
    ELSE IF inter.points = {} THEN LineBoundary(inter.pieces)
    ELSE inter.points \cup LineBoundary(inter.pieces)

\* A variant: only the first part is searched for an existing vertex.
VertexExistsFirstPart(g, pt, tolLayer) ==
    /\ ~IsEmpty(g)
    /\ \E i \in 1..Len(g.parts[1]) : Dist2(g.parts[1][i], pt) < tolLayer * tolLayer

VertexExists(g, pt, tolLayer) ==
    /\ ~IsEmpty(g)
    /\ \E v \in Vertices(g) : Dist2(v, pt) < tolLayer * tolLayer

\* The squared distance of pt to the segment a-b, as <<numerator, denominator>>.
SegDist2(pt, a, b) ==
    LET len2 == Dist2(a, b)
        t    == Dot(a, pt, b)
    IN IF len2 = 0 \/ t <= 0 THEN <<Dist2(pt, a), 1>>
       ELSE IF t >= len2 THEN <<Dist2(pt, b), 1>>
       ELSE <<Sq(Cross(a, b, pt)), len2>>

DistLess(d, e) == d[1] * e[2] < e[1] * d[2]

\* The segments in the order the two loops of _insert_vertex_precisely visit them.
RECURSIVE SegList(_, _, _)
SegList(g, k, i) ==
    IF k > Len(g.parts) THEN << >>
    ELSE IF i > Len(g.parts[k]) - 1 THEN SegList(g, k + 1, 1)
    ELSE << <<k, i>> >> \o SegList(g, k, i + 1)

\* best = (dist, part_idx, insert_idx); the distance <<1, 0>> is infinity.
RECURSIVE BestSegment(_, _, _, _, _)
BestSegment(g, pt, segs, n, best) ==
    IF n > Len(segs) THEN best
    ELSE LET s == segs[n]
             d == SegDist2(pt, SegA(g, s), SegB(g, s))
         IN IF DistLess(d, best.d)
            THEN BestSegment(g, pt, segs, n + 1, [d |-> d, part |-> s[1], at |-> s[2] + 1])
            ELSE BestSegment(g, pt, segs, n + 1, best)

NoChange == [changed |-> FALSE, g |-> EmptyGeom]

\* A variant: the point is inserted without looking for an existing vertex.
InsertVertexAlways(g, pt, tolLayer) ==
    IF IsEmpty(g) THEN NoChange
    ELSE LET best == BestSegment(g, pt, SegList(g, 1, 1), 1, [d |-> <<1, 0>>, part |-> 0, at |-> 0])
         IN IF best.part = 0 THEN NoChange
            ELSE [changed |-> TRUE,
                  g |-> [g EXCEPT !.parts[best.part] = InsertAt(@, best.at, pt)]]

InsertVertexPrecisely(g, pt, tolLayer) ==
    IF IsEmpty(g) THEN NoChange
    ELSE IF VertexExists(g, pt, tolLayer) THEN NoChange
    ELSE LET best == BestSegment(g, pt, SegList(g, 1, 1), 1, [d |-> <<1, 0>>, part |-> 0, at |-> 0])
         IN IF best.part = 0 THEN NoChange
            ELSE [changed |-> TRUE,
                  g |-> [g EXCEPT !.parts[best.part] = InsertAt(@, best.at, pt)]]

\* ------------------------------------------------------------------ state
VARIABLES
    env,        \* the input: which features exist, the layers' setup, the tolerance,
                \* the layers whose from_proj.transform throws
    editable,   \* layer -> the layer is in an edit session
    geom,       \* feature -> its geometry in the layer's CRS (the edit buffer)
    pc,         \* "idle" or "pairs" (inside _process_rect, in the pair loops)
    rect,       \* the rectangle of the running pass
    lineLayers, \* line_layers: the participating layers, in order
    index,      \* the spatial indexes: feature -> bounding box when the pass began
    feats,      \* layer -> info['feats']
    tolLayer,   \* layer -> info['tol_layer']
    todo,       \* the pairs <<i, j, fidA, fidB>> the loops have not visited yet
    cur,        \* <<i, j, fidA>> of the iteration the loops are in
    created,    \* created_count
    had,        \* had_any_intersection
    msgs,       \* the messages pushed to the message bar by the running pass
    cmdDepth,   \* layer -> edit commands begun and not ended
    cmdBegun,   \* layer -> edit commands begun by the running pass
    ins,        \* the insertions of the running pass, as <<feature, point>>
    geom0,      \* the geometries when the running pass, or extender run, began
    ed0,        \* layer -> the layer was editable when the running pass, or run, began
    unwrapped,  \* a geometry was changed outside a single open edit command
    badEdits,   \* the <<layer, feature>> changeGeometry was called for while the layer was not editable
    hist,       \* the completed passes
    el,         \* the extender: the running run of ExtendLines.run and the runs made
    tool,       \* _RectTool: a drag is under way (start_pt), the returns to prev_tool scheduled,
                \* the drags cancelled, a release was ignored
    tr          \* the last call of translate: its arguments and what it returned

vars == <<env, editable, geom, pc, rect, lineLayers, index, feats, tolLayer, todo,
          cur, created, had, msgs, cmdDepth, cmdBegun, ins, geom0, ed0, unwrapped,
          badEdits, hist, el, tool, tr>>

Visible(l) == env.setup[l] # "hidden"

\* QgsVectorLayer.startEditing succeeds.
CanStart(l) == env.setup[l] = "startable"

FeatsOf(l) == { f \in env.present : LayerOf(f) = l }

NoRect == [x1 |-> 0, y1 |-> 0, x2 |-> 0, y2 |-> 0]

NoCur == <<0, 0, 0>>

\* No call of translate made yet.
NoCall == [string |-> [isTuple |-> FALSE, items |-> << >>], loc |-> "", result |-> ""]

\* The rectangle tool at rest: _RectTool.__init__ and _reset.
NoDrag == [startPt |-> FALSE, back |-> 0, cancels |-> 0, aborted |-> FALSE, ignored |-> FALSE]

\* The extender at rest, no run made yet.
NoRun ==
    [pc |-> "idle", src |-> "none", tgt |-> "none", sel |-> << >>, todo |-> << >>,
     idx |-> {}, cv |-> NoRect, performed |-> FALSE, log |-> << >>, msgs |-> << >>,
     runs |-> << >>, undo |-> [l \in LayerSet |-> << >>]]

Init ==
    /\ env \in [present : { S \in SUBSET FeatIds : Cardinality(S) <= MaxFeat },
                setup : LayerSetups,
                tol : 1..MaxTol,
                fails : {{}},
                shapes : {"Catalogue"}]
    /\ editable = [l \in LayerSet |-> env.setup[l] = "editing"]
    /\ geom = [f \in env.present |-> GeomFromProj(LayerOf(f), Catalogue[f])]
    /\ pc = "idle"
    /\ rect = NoRect
    /\ lineLayers = << >>
    /\ index = [f \in {} |-> NoRect]
    /\ feats = [l \in {} |-> {}]
    /\ tolLayer = [l \in {} |-> 0]
    /\ todo = {}
    /\ cur = NoCur
    /\ created = 0
    /\ had = FALSE
    /\ msgs = << >>
    /\ cmdDepth = [l \in LayerSet |-> 0]
    /\ cmdBegun = [l \in LayerSet |-> 0]
    /\ ins = {}
    /\ geom0 = geom
    /\ ed0 = editable
    /\ unwrapped = FALSE
    /\ badEdits = {}
    /\ hist = << >>
    /\ el = NoRun
    /\ tool = NoDrag
    /\ tr = NoCall

\* A variant: a layer that refuses to start editing takes part all the same.
TakesPartAnyway(l) == Visible(l)

\* --------------------------------------- intersection_line.py: _process_rect
\* Step 1: the visible line layers that are, or can be put, in edit mode.
TakesPart(l) == Visible(l) /\ (editable[l] \/ CanStart(l))

CollectLayers == SelectSeq(Layers, TakesPart)

SeqSet(s) == { s[i] : i \in 1..Len(s) }

RectCenter(r) == <<(r.x1 + r.x2) \div 2, (r.y1 + r.y2) \div 2>>

\* Step 2: the candidates of a layer: the index hits of the rectangle that
\* have a valid geometry.
CandidateFeats(l, r, idx) ==
    { f \in FeatsOf(l) :
        /\ f \in DOMAIN idx
        /\ RectsIntersect(idx[f], RectFromProj(l, r))
        /\ ~IsEmpty(geom[f])
        /\ IsGeosValid(geom[f]) }

\* The heads of the three nested loops of step 4, with the two tests on ids.
AllPairs(ll, ft) ==
    { p \in (1..Len(ll)) \X (1..Len(ll)) \X FeatIds \X FeatIds :
        /\ p[1] <= p[2]
        /\ p[3] \in ft[ll[p[1]]]
        /\ p[4] \in ft[ll[p[2]]]
        /\ ~(ll[p[1]] = ll[p[2]] /\ p[4] <= p[3]) }

\* What the loop body reads besides the geometries.
Ctx == [rect |-> rect, ll |-> lineLayers, tol |-> tolLayer, idx |-> index, ed |-> editable]

\* A variant: a pair is left only when neither feature meets the rectangle.
PairPointsEitherInRect(ctx, g, p) ==
    LET la  == ctx.ll[p[1]]
        lb  == ctx.ll[p[2]]
        gA  == g[p[3]]
        gB  == g[p[4]]
        gAp == GeomToProj(la, gA)
        gBp == GeomToProj(lb, gB)
    IN IF IsEmpty(gA) \/ IsEmpty(gB) THEN {}
       ELSE IF ~GeomIntersectsRect(gAp, ctx.rect) /\ ~GeomIntersectsRect(gBp, ctx.rect) THEN {}
       ELSE IF ~RectsIntersect(ctx.idx[p[4]], RectFromProj(lb, BBox(gAp))) THEN {}
       ELSE IF ~GeomsIntersect(gAp, gBp) THEN {}
       ELSE CollectPointsFromIntersection(Intersection(gAp, gBp))

\* The points of one pair, or none when one of the tests of the body skips it.
PairPoints(ctx, g, p) ==
    LET la  == ctx.ll[p[1]]
        lb  == ctx.ll[p[2]]
        gA  == g[p[3]]
        gB  == g[p[4]]
        gAp == GeomToProj(la, gA)
        gBp == GeomToProj(lb, gB)
    IN IF IsEmpty(gA) \/ ~GeomIntersectsRect(gAp, ctx.rect) THEN {}
       ELSE IF ~RectsIntersect(ctx.idx[p[4]], RectFromProj(lb, BBox(gAp))) THEN {}
       ELSE IF IsEmpty(gB) \/ ~GeomIntersectsRect(gBp, ctx.rect) THEN {}
       ELSE IF ~GeomsIntersect(gAp, gBp) THEN {}
       ELSE CollectPointsFromIntersection(Intersection(gAp, gBp))

\* A variant: the point is inserted on A only.
RECURSIVE InsertPointsOnlyA(_, _, _, _, _, _, _)
InsertPointsOnlyA(ord, k, la, lb, tolA, tolB, acc) ==
    IF k > Len(ord) THEN acc
    ELSE LET ptA  == FromProj(la, ord[k])
             newA == InsertVertexPrecisely(acc.gA, ptA, tolA)
         IN InsertPointsOnlyA(ord, k + 1, la, lb, tolA, tolB,
                [acc EXCEPT !.gA = IF newA.changed THEN newA.g ELSE @,
                            !.chA = @ \/ newA.changed,
                            !.n = @ + (IF newA.changed THEN 1 ELSE 0),
                            !.ptsA = IF newA.changed THEN @ \cup {ptA} ELSE @])

\* The loop over the points of one pair: insert on A, then on B.
RECURSIVE InsertPoints(_, _, _, _, _, _, _)
InsertPoints(ord, k, la, lb, tolA, tolB, acc) ==
    IF k > Len(ord) THEN acc
    ELSE LET ptA  == TryFromProj(env.fails, la, ord[k])
             newA == InsertVertexPrecisely(acc.gA, ptA, tolA)
             ptB  == TryFromProj(env.fails, lb, ord[k])
             newB == InsertVertexPrecisely(acc.gB, ptB, tolB)
         IN InsertPoints(ord, k + 1, la, lb, tolA, tolB,
                [gA  |-> IF newA.changed THEN newA.g ELSE acc.gA,
                 gB  |-> IF newB.changed THEN newB.g ELSE acc.gB,
                 chA |-> acc.chA \/ newA.changed,
                 chB |-> acc.chB \/ newB.changed,
                 n   |-> acc.n + (IF newA.changed THEN 1 ELSE 0)
                               + (IF newB.changed THEN 1 ELSE 0),
                 ptsA |-> IF newA.changed THEN acc.ptsA \cup {ptA} ELSE acc.ptsA,
                 ptsB |-> IF newB.changed THEN acc.ptsB \cup {ptB} ELSE acc.ptsB])

\* QgsVectorLayer.changeGeometry: refused unless the layer is in an edit session.
ChangeGeometry(ed, g, l, f, new) == IF ed[l] THEN [g EXCEPT ![f] = new] ELSE g

\* A variant: the geometries are those read when the pass began.
PairStepFromSnapshot(ctx, g, p, ord) ==
    LET la  == ctx.ll[p[1]]
        lb  == ctx.ll[p[2]]
        acc == InsertPoints(ord, 1, la, lb, ctx.tol[la], ctx.tol[lb],
                   [gA |-> geom0[p[3]], gB |-> geom0[p[4]], chA |-> FALSE, chB |-> FALSE,
                    n |-> 0, ptsA |-> {}, ptsB |-> {}])
        g1  == IF acc.chA THEN ChangeGeometry(ctx.ed, g, la, p[3], acc.gA) ELSE g
        g2  == IF acc.chB THEN ChangeGeometry(ctx.ed, g1, lb, p[4], acc.gB) ELSE g1
    IN [g |-> g2, n |-> acc.n, had |-> ord # << >>,
        log |-> { <<p[3], q>> : q \in acc.ptsA } \cup { <<p[4], q>> : q \in acc.ptsB },
        touched |-> (IF acc.chA THEN {<<la, p[3]>>} ELSE {})
                    \cup (IF acc.chB THEN {<<lb, p[4]>>} ELSE {})]

\* The body of the loops for the pair p, its points taken in the order ord.
PairStep(ctx, g, p, ord) ==
    LET la  == ctx.ll[p[1]]
        lb  == ctx.ll[p[2]]
        acc == InsertPoints(ord, 1, la, lb, ctx.tol[la], ctx.tol[lb],
                   [gA |-> g[p[3]], gB |-> g[p[4]], chA |-> FALSE, chB |-> FALSE,
                    n |-> 0, ptsA |-> {}, ptsB |-> {}])
        g1  == IF acc.chA THEN ChangeGeometry(ctx.ed, g, la, p[3], acc.gA) ELSE g
        g2  == IF acc.chB THEN ChangeGeometry(ctx.ed, g1, lb, p[4], acc.gB) ELSE g1
    IN [g |-> g2, n |-> acc.n, had |-> ord # << >>,
        log |-> { <<p[3], q>> : q \in acc.ptsA } \cup { <<p[4], q>> : q \in acc.ptsB },
        touched |-> (IF acc.chA THEN {<<la, p[3]>>} ELSE {})
                    \cup (IF acc.chB THEN {<<lb, p[4]>>} ELSE {})]

\* The message bar texts.
MsgNone == [kind |-> "none", n |-> 0]

MsgShared == [kind |-> "shared", n |-> 0]

MsgCreated(n) == [kind |-> "created", n |-> n]

\* A variant: the two messages of a pass that created nothing are swapped.
SummarySwapped(n, hadAny) ==
    IF n = 0 THEN (IF hadAny THEN MsgNone ELSE MsgShared) ELSE MsgCreated(n)

\* Step 6: the summary of a pass.
Summary(n, hadAny) ==
    IF n = 0 THEN (IF hadAny THEN MsgShared ELSE MsgNone) ELSE MsgCreated(n)

\* What is kept of a completed pass.
PassRecord(r, ll, edBefore, gBefore, gAfter, n, hadAny, ms, begun, depth, log) ==
    [rect |-> r, ll |-> ll, edBefore |-> edBefore, before |-> gBefore, after |-> gAfter,
     created |-> n, had |-> hadAny, msgs |-> ms, begun |-> begun, depth |-> depth,
     ins |-> log]

\* A variant: an edit command is begun on the first participating layer only.
BeginCommandsFirstOnly(ll, depth) == [l \in LayerSet |-> IF l = ll[1] THEN depth[l] + 1 ELSE depth[l]]

\* Steps 3: one edit command is begun on every participating layer.
BeginCommands(ll, depth) == [l \in LayerSet |-> IF l \in SeqSet(ll) THEN depth[l] + 1 ELSE depth[l]]

\* Step 5: the edit command of every participating layer is ended.
EndCommands(ll, depth) == [l \in LayerSet |-> IF l \in SeqSet(ll) THEN depth[l] - 1 ELSE depth[l]]

\* canvasReleaseEvent with the left button after a drag: _process_rect starts,
\* steps 1 to 3.  With no participating layer it reports and returns at once.
\* The drags of one behaviour select the same rectangle again.
Release(r) ==
    /\ pc = "idle"
    /\ Len(hist) < MaxPasses
    /\ hist # << >> => r = hist[Len(hist)].rect
    /\ LET ll  == CollectLayers
           ed1 == [l \in LayerSet |-> editable[l] \/ (Visible(l) /\ CanStart(l))]
           idx == [f \in { f \in env.present : LayerOf(f) \in SeqSet(ll) } |-> BBox(geom[f])]
           ft  == [l \in SeqSet(ll) |-> CandidateFeats(l, r, idx)]
       IN /\ editable' = ed1
          /\ rect' = r
          /\ geom0' = geom
          /\ ed0' = editable
          /\ ins' = {}
          /\ cur' = NoCur
          /\ created' = 0
          /\ had' = FALSE
          /\ IF ll = << >>
             THEN /\ msgs' = <<MsgNone>>
                  /\ tool' = [tool EXCEPT !.startPt = FALSE, !.back = @ + 1]
                  /\ hist' = Append(hist, PassRecord(r, ll, editable, geom, geom, 0, FALSE,
                                       <<MsgNone>>, [l \in LayerSet |-> 0], cmdDepth, {}))
                  /\ UNCHANGED <<pc, lineLayers, index, feats, tolLayer, todo, cmdDepth, cmdBegun>>
             ELSE /\ msgs' = << >>
                  /\ tool' = [tool EXCEPT !.startPt = TRUE]
                  /\ pc' = "pairs"
                  /\ lineLayers' = ll
                  /\ index' = idx
                  /\ feats' = ft
                  /\ tolLayer' = [l \in SeqSet(ll) |-> TolInLayerUnits(env.fails, l, env.tol, RectCenter(r))]
                  /\ cmdDepth' = BeginCommands(ll, cmdDepth)
                  /\ cmdBegun' = [l \in LayerSet |-> IF l \in SeqSet(ll) THEN 1 ELSE 0]
                  /\ todo' = AllPairs(ll, ft)
                  /\ UNCHANGED hist
    /\ UNCHANGED <<env, tr, geom, unwrapped, badEdits, el>>

\* The pairs the loops can visit next: the layer pairs in order, the features
\* of A one after the other (in the order getFeatures yields them), the index
\* hits of one A in the order the index returns them.
NextPairs ==
    { p \in todo :
        /\ \A q \in todo : ~(q[1] < p[1] \/ (q[1] = p[1] /\ q[2] < p[2]))
        /\ (\E q \in todo : <<q[1], q[2], q[3]>> = cur) => <<p[1], p[2], p[3]>> = cur }

\* Step 4, one pair: the body of the loops.
ProcessPair ==
    /\ pc = "pairs"
    /\ \E p \in NextPairs :
         \E ord \in Orderings(PairPoints(Ctx, geom, p)) :
            \E res \in {PairStep(Ctx, geom, p, ord)} :
               /\ geom' = res.g
               /\ created' = created + res.n
               /\ had' = (had \/ res.had)
               /\ ins' = ins \cup res.log
               /\ todo' = todo \ {p}
               /\ cur' = <<p[1], p[2], p[3]>>
               /\ unwrapped' = (unwrapped \/ \E t \in res.touched : cmdDepth[t[1]] # 1)
               /\ badEdits' = badEdits \cup { t \in res.touched : ~editable[t[1]] }
    /\ UNCHANGED <<env, tr, editable, pc, rect, lineLayers, index, feats, tolLayer, msgs,
                   cmdDepth, cmdBegun, geom0, ed0, hist, el, tool>>

\* Steps 5 and 6: the loops are over.
PassEnd ==
    /\ pc = "pairs"
    /\ todo = {}
    /\ pc' = "idle"
    /\ tool' = [tool EXCEPT !.startPt = FALSE, !.back = @ + 1]
    /\ cmdDepth' = EndCommands(lineLayers, cmdDepth)
    /\ msgs' = Append(msgs, Summary(created, had))
    /\ hist' = Append(hist, PassRecord(rect, lineLayers, ed0, geom0, geom, created, had,
                                       Append(msgs, Summary(created, had)), cmdBegun,
                                       EndCommands(lineLayers, cmdDepth), ins))
    /\ UNCHANGED <<env, tr, editable, geom, rect, lineLayers, index, feats, tolLayer, todo,
                   cur, created, had, cmdBegun, ins, geom0, ed0, unwrapped, badEdits, el>>

Next ==
    \/ \E r \in Rects : Release(r)
    \/ ProcessPair
    \/ PassEnd

Spec == Init /\ [][Next]_vars

\* ------------------------------- intersection_line.py: a pass that fails
\* The message canvasReleaseEvent pushes for an exception.
MsgCritical == [kind |-> "critical", n |-> 0]

\* The pass of the record h was ended by an exception.
Failed(h) == MsgCritical \in SeqSet(h.msgs)

\* A variant: what the pass inserted is taken back when it fails.
RaiseRolledBack ==
    /\ pc = "pairs"
    /\ pc' = "idle"
    /\ geom' = geom0
    /\ msgs' = Append(msgs, MsgCritical)
    /\ tool' = [tool EXCEPT !.startPt = FALSE, !.back = @ + 1]
    /\ hist' = Append(hist, PassRecord(rect, lineLayers, ed0, geom0, geom0, created, had,
                                       Append(msgs, MsgCritical), cmdBegun, cmdDepth, ins))
    /\ UNCHANGED <<env, tr, editable, rect, lineLayers, index, feats, tolLayer, todo, cur,
                   created, had, cmdDepth, cmdBegun, ins, geom0, ed0, unwrapped, badEdits, el>>

\* An exception leaves _process_rect from inside the loops of step 4, which
\* have a body to run when a layer has a candidate: steps 5 and 6 are not
\* run, canvasReleaseEvent pushes the critical message, resets the drag and
\* schedules the return to the previous tool.
Raise ==
    /\ pc = "pairs"
    /\ \E l \in SeqSet(lineLayers) : feats[l] # {}
    /\ pc' = "idle"
    /\ msgs' = Append(msgs, MsgCritical)
    /\ tool' = [tool EXCEPT !.startPt = FALSE, !.back = @ + 1]
    /\ hist' = Append(hist, PassRecord(rect, lineLayers, ed0, geom0, geom, created, had,
                                       Append(msgs, MsgCritical), cmdBegun, cmdDepth, ins))
    /\ UNCHANGED <<env, tr, editable, geom, rect, lineLayers, index, feats, tolLayer, todo, cur,
                   created, had, cmdDepth, cmdBegun, ins, geom0, ed0, unwrapped, badEdits, el>>

\* An exception leaves _process_rect from step 2: the layers of step 1 have
\* been put into edit mode, no edit command has been begun.
ReleaseRaise(r) ==
    /\ pc = "idle"
    /\ Len(hist) < MaxPasses
    /\ hist # << >> => r = hist[Len(hist)].rect
    /\ CollectLayers # << >>
    /\ editable' = [l \in LayerSet |-> editable[l] \/ (Visible(l) /\ CanStart(l))]
    /\ rect' = r
    /\ geom0' = geom
    /\ ed0' = editable
    /\ ins' = {}
    /\ cur' = NoCur
    /\ created' = 0
    /\ had' = FALSE
    /\ msgs' = <<MsgCritical>>
    /\ tool' = [tool EXCEPT !.startPt = FALSE, !.back = @ + 1]
    /\ hist' = Append(hist, PassRecord(r, CollectLayers, editable, geom, geom, 0, FALSE,
                                       <<MsgCritical>>, [l \in LayerSet |-> 0], cmdDepth, {}))
    /\ UNCHANGED <<env, tr, geom, pc, lineLayers, index, feats, tolLayer, todo, cmdDepth,
                   cmdBegun, unwrapped, badEdits, el>>

\* The passes, the last of which may fail: the passes a behaviour makes
\* after a failed one are not looked at.
NextEX ==
    \/ (\A k \in 1..Len(hist) : ~Failed(hist[k])) /\ Next
    \/ Raise
    \/ \E r \in Rects : ReleaseRaise(r)

SpecEX == Init /\ [][NextEX]_vars

\* ------------------- intersection_line.py: a pass with failing transforms
\* The project of Init, with layers whose from_proj.transform throws.
InitTF ==
    /\ env \in [present : { S \in SUBSET FeatIds : Cardinality(S) <= MaxFeat },
                setup : LayerSetups,
                tol : 1..MaxTol,
                fails : SUBSET LayerSet,
                shapes : {"Catalogue"}]
    /\ editable = [l \in LayerSet |-> env.setup[l] = "editing"]
    /\ geom = [f \in env.present |-> GeomFromProj(LayerOf(f), Catalogue[f])]
    /\ pc = "idle"
    /\ rect = NoRect
    /\ lineLayers = << >>
    /\ index = [f \in {} |-> NoRect]
    /\ feats = [l \in {} |-> {}]
    /\ tolLayer = [l \in {} |-> 0]
    /\ todo = {}
    /\ cur = NoCur
    /\ created = 0
    /\ had = FALSE
    /\ msgs = << >>
    /\ cmdDepth = [l \in LayerSet |-> 0]
    /\ cmdBegun = [l \in LayerSet |-> 0]
    /\ ins = {}
    /\ geom0 = geom
    /\ ed0 = editable
    /\ unwrapped = FALSE
    /\ badEdits = {}
    /\ hist = << >>
    /\ el = NoRun
    /\ tool = NoDrag
    /\ tr = NoCall

SpecTF == InitTF /\ [][Next]_vars

\* ------------------------------------------------------- extend_lines.py
\* The line shapes of the extender's world.  The extender transforms no
\* coordinate: it compares the layers' coordinates as they are, and the
\* shapes are given in them.  Odd ids live in L1, even ids in L2.
ExtCatalogue ==
    << Line(<< <<1, 1>>, <<3, 1>> >>),
       Line(<< <<4, 0>>, <<4, 4>> >>),
       MultiLine(<< << <<1, 3>>, <<2, 3>> >>, << <<1, 4>>, <<2, 4>> >> >>),
       Line(<< <<0, 0>>, <<0, 4>> >>),
       Line(<< <<6, 6>>, <<7, 6>> >>),
       Line(<< <<5, 5>> >>),
       Line(<< <<0, 6>>, <<1, 6>> >>),
       Line(<< <<1, 3>>, <<1, 3>>, <<1, 2>>, <<2, 2>> >>) >>

ExtIds == 1..Len(ExtCatalogue)

\* The extents the map canvas can show.
Canvases ==
    { [x1 |-> 0, y1 |-> 0, x2 |-> 7, y2 |-> 7],
      [x1 |-> 1, y1 |-> 0, x2 |-> 4, y2 |-> 7] }

\* The integer points of the extender's world, and QgsGeometry.intersection
\* on them (as Intersection on the points of the project plane).
ExtLattice == (0..ExtGridMax) \X (0..ExtGridMax)

ExtUnitPieces == { <<p, <<p[1] + d[1], p[2] + d[2]>>>> : p \in ExtLattice, d \in UnitDirs }

ExtIntersection(gA, gB) ==
    LET pieces == { u \in ExtUnitPieces : PieceOnGeom(u, gA) /\ PieceOnGeom(u, gB) }
        onLine == { u[1] : u \in pieces } \cup { u[2] : u \in pieces }
        shared == { p \in ExtLattice : OnGeom(p, gA) /\ OnGeom(p, gB) }
    IN [points |-> shared \ onLine, pieces |-> pieces]

\* extension_length
ExtensionLength == 10000

Sgn(n) == IF n > 0 THEN 1 ELSE IF n < 0 THEN 0 - 1 ELSE 0

\* (cos, sin) of atan2(dy, dx), scaled: the segments of the world are
\* horizontal, vertical or diagonal; atan2(0, 0) is 0.
BearingDir(d) == IF d = <<0, 0>> THEN <<1, 0>> ELSE <<Sgn(d[1]), Sgn(d[2])>>

\* start_ext_line / end_ext_line: from the end point e along the bearing of d.
ExtLine(e, d) ==
    Line(<< e, <<e[1] + ExtensionLength * BearingDir(d)[1],
                 e[2] + ExtensionLength * BearingDir(d)[2]>> >>)

\* A variant: an end that touches a target is not recognised.
TouchesNothing(v, idx, g) == FALSE

\* The end vertex v already intersects a feature of the target index.
TouchesTarget(v, idx, g) == \E fid \in DOMAIN idx : InRect(v, idx[fid]) /\ OnGeom(v, g[fid])

\* A variant: the direction of an intersection is not looked at.
HitsAnyDirection(e, d, idx, g) ==
    UNION { LET inter == ExtIntersection(ExtLine(e, d), g[fid])
            IN IF inter.points = {} \/ inter.pieces # {} THEN {}
               ELSE { [pt |-> ip, d2 |-> Dist2(e, ip), fid |-> fid] :
                      ip \in { q \in inter.points : Dist2(e, q) > 0 } } :
            fid \in { c \in DOMAIN idx : RectsIntersect(idx[c], BBox(ExtLine(e, d))) } }

\* The intersections find_closest_intersection weighs: those of point type,
\* ahead of the end point e and away from it; d2 is the squared distance.
Hits(e, d, idx, g) ==
    UNION { LET inter == ExtIntersection(ExtLine(e, d), g[fid])
            IN IF inter.points = {} \/ inter.pieces # {} THEN {}
               ELSE { [pt |-> ip, d2 |-> Dist2(e, ip), fid |-> fid] :
                      ip \in { q \in inter.points :
                                 /\ (q[1] - e[1]) * d[1] + (q[2] - e[2]) * d[2] > 0
                                 /\ Dist2(e, q) > 0 } } :
            fid \in { c \in DOMAIN idx : RectsIntersect(idx[c], BBox(ExtLine(e, d))) } }

\* No intersection found: (None, inf, None); d2 = -1 stands for infinity.
NoHit == [pt |-> <<0, 0>>, d2 |-> 0 - 1, fid |-> 0]

\* The results find_closest_intersection can return: the closest hit, of
\* any of the features that give it (the index fixes no candidate order).
FindClosestIntersection(e, d, idx, g) ==
    LET hits == Hits(e, d, idx, g)
    IN IF hits = {} THEN {NoHit}
       ELSE { h \in hits : \A k \in hits : h.d2 <= k.d2 }

\* A variant: every point counts as visible.
PointVisibleAlways(pt, cv) == TRUE

\* chosen_point_geom.boundingBox().intersects(canvas_extent)
PointVisible(pt, cv) == InRect(pt, cv)

\* A variant: start_dist <= end_dist.
CloserOrEqual(a, b) == a.d2 # 0 - 1 /\ (b.d2 = 0 - 1 \/ a.d2 <= b.d2)

\* start_dist < end_dist
CloserThan(a, b) == a.d2 # 0 - 1 /\ (b.d2 = 0 - 1 \/ a.d2 < b.d2)

\* QgsGeometry.addTopologicalPoint: a vertex on the segment the point lies
\* on, unless the geometry has a vertex there.
AddTopologicalPoint(g, pt) ==
    LET on == SelectSeq(SegList(g, 1, 1), LAMBDA sg : OnSegment(pt, SegA(g, sg), SegB(g, sg)))
    IN IF pt \in Vertices(g) \/ on = << >> THEN [changed |-> FALSE, g |-> g]
       ELSE [changed |-> TRUE,
             g |-> [g EXCEPT !.parts[on[1][1]] = InsertAt(@, on[1][2] + 1, pt)]]

\* line_points: the first part of a multipart line, the polyline otherwise.
LinePoints(g) == IF g.parts = << >> THEN << >> ELSE g.parts[1]

\* A variant: the chosen point takes the place of the end vertex.
NewLinePointsReplacing(pts, isStart, pt) ==
    IF isStart THEN <<pt>> \o Tail(pts) ELSE Append(SubSeq(pts, 1, Len(pts) - 1), pt)

\* new_line_points: the chosen point put before the first or after the last.
NewLinePoints(pts, isStart, pt) == IF isStart THEN <<pt>> \o pts ELSE Append(pts, pt)

\* new_geom: the new points alone, as a line or as a one-part multiline.
NewGeom(g, pts) == IF g.multi THEN MultiLine(<<pts>>) ELSE Line(pts)

\* A variant: a skipped feature loses its geometry.
SkippedCleared(f, why, g) ==
    [fid |-> f, outcome |-> why, isStart |-> FALSE, pt |-> <<0, 0>>, tid |-> 0,
     added |-> FALSE, new |-> EmptyGeom, g |-> [g EXCEPT ![f] = EmptyGeom]]

\* What one iteration of the loop over the selected features leaves behind.
Skipped(f, why, g) ==
    [fid |-> f, outcome |-> why, isStart |-> FALSE, pt |-> <<0, 0>>, tid |-> 0,
     added |-> FALSE, new |-> EmptyGeom, g |-> g]

\* A variant: the number of vertices of the line is not looked at.
ExtendOneAnyLength(f, fg, idx, cv, ed, src, tgt, g, hs, he) ==
    LET pts   == LinePoints(fg)
        first == pts[1]
        last  == pts[Len(pts)]
        ignS  == TouchesTarget(first, idx, g)
        ignE  == TouchesTarget(last, idx, g)
        s     == IF ignS THEN NoHit ELSE hs
        e     == IF ignE THEN NoHit ELSE he
        isSt  == CloserThan(s, e)
        ch    == IF isSt THEN s ELSE e
        new   == NewGeom(fg, NewLinePoints(pts, isSt, ch.pt))
        g1    == ChangeGeometry(ed, g, src, f, new)
        top   == AddTopologicalPoint(g1[ch.fid], ch.pt)
        g2    == IF top.changed THEN ChangeGeometry(ed, g1, tgt, ch.fid, top.g) ELSE g1
    IN IF ~RectsIntersect(BBox(fg), cv) THEN Skipped(f, "outside", g)
       ELSE IF ignS /\ ignE THEN Skipped(f, "touching", g)
       ELSE IF s = NoHit /\ e = NoHit THEN Skipped(f, "nolines", g)
       ELSE IF ~PointVisible(ch.pt, cv) THEN Skipped(f, "hidden", g)
       ELSE [fid |-> f, outcome |-> "extended", isStart |-> isSt, pt |-> ch.pt,
             tid |-> ch.fid, added |-> top.changed, new |-> new, g |-> g2]

\* One iteration of the loop for the selected feature f with the geometry
\* fg it had when selectedFeatures() was read; hs and he are the results of
\* find_closest_intersection for the start and for the end.
ExtendOne(f, fg, idx, cv, ed, src, tgt, g, hs, he) ==
    LET pts   == LinePoints(fg)
        first == pts[1]
        last  == pts[Len(pts)]
        ignS  == TouchesTarget(first, idx, g)
        ignE  == TouchesTarget(last, idx, g)
        s     == IF ignS THEN NoHit ELSE hs
        e     == IF ignE THEN NoHit ELSE he
        isSt  == CloserThan(s, e)
        ch    == IF isSt THEN s ELSE e
        new   == NewGeom(fg, NewLinePoints(pts, isSt, ch.pt))
        g1    == ChangeGeometry(ed, g, src, f, new)
        top   == AddTopologicalPoint(g1[ch.fid], ch.pt)
        g2    == IF top.changed THEN ChangeGeometry(ed, g1, tgt, ch.fid, top.g) ELSE g1
    IN IF ~RectsIntersect(BBox(fg), cv) THEN Skipped(f, "outside", g)
       ELSE IF Len(pts) < 2 THEN Skipped(f, "short", g)
       ELSE IF ignS /\ ignE THEN Skipped(f, "touching", g)
       ELSE IF s = NoHit /\ e = NoHit THEN Skipped(f, "nolines", g)
       ELSE IF ~PointVisible(ch.pt, cv) THEN Skipped(f, "hidden", g)
       ELSE [fid |-> f, outcome |-> "extended", isStart |-> isSt, pt |-> ch.pt,
             tid |-> ch.fid, added |-> top.changed, new |-> new, g |-> g2]

\* The arguments of a run: the active layer (or none), the selected
\* features in the order selectedFeatures() gives them, the answer to the
\* target dialog and the extent of the canvas.
RunArgs(s, sel, t, ok, cv) == [src |-> s, sel |-> sel, tgt |-> t, ok |-> ok, cv |-> cv]

\* What is kept of a completed run.
RunRecord(args, edBefore, edAfter, gBefore, gAfter, log, ms) ==
    [args |-> args, edBefore |-> edBefore, edAfter |-> edAfter, before |-> gBefore,
     after |-> gAfter, log |-> log, msgs |-> ms]

\* A variant: every feature of the target layer is indexed.
IndexEveryFeature(s, sel, t) == FeatsOf(t)

\* The features index_target receives: those of the target layer, without
\* the selected ones when the target layer is the source layer.
IndexTarget(s, sel, t) == { f \in FeatsOf(t) : ~(t = s /\ f \in SeqSet(sel)) }

\* ExtendLines.run up to the loop: the active layer is validated and put
\* into edit mode, the selection is read, the target is asked for and put
\* into edit mode, the index of the target is built.  The runs of one
\* behaviour are made with the same arguments.
Run(s, sel, t, ok, cv) ==
    /\ el.pc = "idle"
    /\ Len(el.runs) < MaxRuns
    /\ el.runs # << >> => el.runs[Len(el.runs)].args = RunArgs(s, sel, t, ok, cv)
    /\ LET ed1 == [l \in LayerSet |-> editable[l] \/ (l = s /\ CanStart(l))]
           ed2 == [l \in LayerSet |-> ed1[l] \/ (l = t /\ CanStart(l))]
           ret(ed, m) == [el EXCEPT !.runs = Append(@, RunRecord(RunArgs(s, sel, t, ok, cv),
                                                  editable, ed, geom, geom, << >>, <<m>>))]
       IN IF s = "none"
          THEN /\ sel = << >>
               /\ el' = ret(editable, "activate a line layer")
               /\ UNCHANGED editable
          ELSE /\ SeqSet(sel) \subseteq FeatsOf(s)
               /\ IF sel = << >>
                  THEN /\ editable' = ed1
                       /\ el' = ret(ed1, "no lines selected")
                  ELSE IF ~ok
                  THEN /\ editable' = ed1
                       /\ el' = ret(ed1, "cancelled")
                  ELSE /\ editable' = ed2
                       /\ el' = [el EXCEPT
                                   !.pc = "loop", !.src = s, !.tgt = t, !.sel = sel,
                                   !.todo = sel, !.cv = cv, !.performed = FALSE,
                                   !.log = << >>, !.msgs = << >>,
                                   !.idx = [f \in IndexTarget(s, sel, t) |-> BBox(geom[f])]]
    /\ geom0' = geom
    /\ ed0' = editable
    /\ UNCHANGED <<env, tr, geom, pc, rect, lineLayers, index, feats, tolLayer, todo, cur,
                   created, had, msgs, cmdDepth, cmdBegun, ins, unwrapped, badEdits, hist, tool>>

\* One iteration of the loop over the selected features.
ExtendFeature ==
    /\ el.pc = "loop"
    /\ el.todo # << >>
    /\ LET f  == Head(el.todo)
           fg == geom0[f]
           p  == LinePoints(fg)
       IN \E hs \in (IF Len(p) < 2 THEN {NoHit}
                     ELSE FindClosestIntersection(p[1], <<p[1][1] - p[2][1], p[1][2] - p[2][2]>>,
                                                  el.idx, geom)),
             he \in (IF Len(p) < 2 THEN {NoHit}
                     ELSE FindClosestIntersection(p[Len(p)],
                              <<p[Len(p)][1] - p[Len(p) - 1][1], p[Len(p)][2] - p[Len(p) - 1][2]>>,
                              el.idx, geom)) :
            \E res \in {ExtendOne(f, fg, el.idx, el.cv, editable, el.src, el.tgt, geom, hs, he)} :
            LET ext == res.outcome = "extended"
            IN /\ geom' = res.g
               /\ el' = [el EXCEPT !.todo = Tail(@),
                                   !.log = Append(@, [fid |-> res.fid, outcome |-> res.outcome,
                                                      isStart |-> res.isStart, pt |-> res.pt,
                                                      tid |-> res.tid, added |-> res.added,
                                                      new |-> res.new, same |-> res.g = geom,
                                                      hs |-> hs, he |-> he]),
                                   !.undo = [l \in LayerSet |->
                                       @[l] \o (IF ext /\ l = el.src /\ editable[l] THEN <<{f}>> ELSE << >>)
                                            \o (IF ext /\ res.added /\ l = el.tgt /\ editable[l]
                                                THEN <<{res.tid}>> ELSE << >>)],
                                   !.performed = @ \/ ext,
                                   !.msgs = IF res.outcome \in {"outside", "nolines", "hidden"}
                                            THEN Append(@, res.outcome) ELSE @]
               /\ badEdits' = badEdits
                     \cup (IF ext /\ ~editable[el.src] THEN {<<el.src, f>>} ELSE {})
                     \cup (IF ext /\ res.added /\ ~editable[el.tgt] THEN {<<el.tgt, res.tid>>} ELSE {})
    /\ UNCHANGED <<env, tr, editable, pc, rect, lineLayers, index, feats, tolLayer, todo, cur,
                   created, had, msgs, cmdDepth, cmdBegun, ins, geom0, ed0, unwrapped, hist,
                   tool>>

\* The loop is over: the completion message.
RunEnd ==
    /\ el.pc = "loop"
    /\ el.todo = << >>
    /\ LET ms == Append(el.msgs, IF el.performed THEN "extension complete"
                                 ELSE "no extension performed")
       IN el' = [el EXCEPT !.pc = "idle", !.msgs = ms,
                    !.runs = Append(@, RunRecord(RunArgs(el.src, el.sel, el.tgt, TRUE, el.cv),
                                                 ed0, editable, geom0, geom, el.log, ms))]
    /\ UNCHANGED <<env, tr, editable, geom, pc, rect, lineLayers, index, feats, tolLayer, todo,
                   cur, created, had, msgs, cmdDepth, cmdBegun, ins, geom0, ed0, unwrapped,
                   badEdits, hist, tool>>

\* The project of the extender: some of the shapes, the layers' setup.
InitEL ==
    /\ env \in [present : { S \in SUBSET ExtIds : Cardinality(S) <= MaxFeat },
                setup : LayerSetups,
                tol : {1},
                fails : {{}},
                shapes : {"ExtCatalogue"}]
    /\ editable = [l \in LayerSet |-> env.setup[l] = "editing"]
    /\ geom = [f \in env.present |-> ExtCatalogue[f]]
    /\ pc = "idle"
    /\ rect = NoRect
    /\ lineLayers = << >>
    /\ index = [f \in {} |-> NoRect]
    /\ feats = [l \in {} |-> {}]
    /\ tolLayer = [l \in {} |-> 0]
    /\ todo = {}
    /\ cur = NoCur
    /\ created = 0
    /\ had = FALSE
    /\ msgs = << >>
    /\ cmdDepth = [l \in LayerSet |-> 0]
    /\ cmdBegun = [l \in LayerSet |-> 0]
    /\ ins = {}
    /\ geom0 = geom
    /\ ed0 = editable
    /\ unwrapped = FALSE
    /\ badEdits = {}
    /\ hist = << >>
    /\ el = NoRun
    /\ tool = NoDrag
    /\ tr = NoCall

\* The selections of a layer, in every order.
Selections(l) == UNION { Orderings(S) : S \in { T \in SUBSET FeatsOf(l) : Cardinality(T) <= MaxSel } }

\* The runs that can be made.  What a run does not get to read (the target
\* and the canvas of a run that returns before it asks for them) is left out.
NextEL ==
    \/ \E s \in LayerSet \cup {"none"} :
          \E sel \in (IF s = "none" THEN { << >> } ELSE Selections(s)) :
             \E ok \in (IF sel = << >> THEN {TRUE} ELSE BOOLEAN) :
                \E t \in (IF sel = << >> \/ ~ok THEN {"none"} ELSE LayerSet),
                   cv \in (IF sel = << >> \/ ~ok THEN {NoRect} ELSE Canvases) :
                   Run(s, sel, t, ok, cv)
    \/ ExtendFeature
    \/ RunEnd

SpecEL == InitEL /\ [][NextEL]_vars

\* ------------------------------ intersection_line.py: the mouse events
\* canvasPressEvent, left button: the drag begins.
PressLeft ==
    /\ pc = "idle"
    /\ ~tool.startPt
    /\ tool' = [tool EXCEPT !.startPt = TRUE]
    /\ UNCHANGED <<env, tr, editable, geom, pc, rect, lineLayers, index, feats, tolLayer, todo,
                   cur, created, had, msgs, cmdDepth, cmdBegun, ins, geom0, ed0, unwrapped,
                   badEdits, hist, el>>

\* canvasPressEvent, right button: _reset and the return to the previous
\* tool, whether a drag is pending or not.
PressRight ==
    /\ pc = "idle"
    /\ tool.cancels < MaxCancels
    /\ tool' = [tool EXCEPT !.startPt = FALSE, !.back = @ + 1, !.cancels = @ + 1,
                            !.aborted = @ \/ tool.startPt]
    /\ UNCHANGED <<env, tr, editable, geom, pc, rect, lineLayers, index, feats, tolLayer, todo,
                   cur, created, had, msgs, cmdDepth, cmdBegun, ins, geom0, ed0, unwrapped,
                   badEdits, hist, el>>

\* A variant: every release runs a pass.
CanvasReleaseUnguarded(b, r) == Release(r)

\* canvasReleaseEvent for the button b, the drag spanning r: a pass when a
\* press is pending and the button is the left one, nothing otherwise.
CanvasRelease(b, r) ==
    IF tool.startPt /\ b = "left"
    THEN Release(r)
    ELSE /\ pc = "idle"
         /\ tool' = [tool EXCEPT !.ignored = TRUE]
         /\ UNCHANGED <<env, tr, editable, geom, pc, rect, lineLayers, index, feats, tolLayer,
                        todo, cur, created, had, msgs, cmdDepth, cmdBegun, ins, geom0, ed0,
                        unwrapped, badEdits, hist, el>>

\* The events of the rectangle tool; the layers are all in edit mode.
InitRT ==
    /\ Init
    /\ env.tol = 1
    /\ \A l \in LayerSet : env.setup[l] = "editing"

NextRT ==
    \/ PressLeft
    \/ PressRight
    \/ \E b \in {"left", "right"} : \E r \in Rects : CanvasRelease(b, r)
    \/ ProcessPair
    \/ PassEnd

SpecRT == InitRT /\ [][NextRT]_vars

\* ------------------------------------------ both tools in one development
\* A project of the rectangle tool or a project of the extender; each tool
\* works on the shapes of its own project.
InitBoth == Init \/ InitEL

NextBoth ==
    \/ env.shapes = "Catalogue" /\ Next
    \/ env.shapes = "ExtCatalogue" /\ NextEL

SpecBoth == InitBoth /\ [][NextBoth]_vars

\* -------------------------------------------- translations/translate.py
\* dictionary.py: three of the entries of dic.
dic ==
    [k \in {"Vector", "Tools", "Layer"} |->
        IF k = "Vector" THEN [es |-> "Vector", fr |-> "Vecteur", de |-> "Vektor"]
        ELSE IF k = "Tools" THEN [es |-> "Herramientas", fr |-> "Outils", de |-> "Werkzeuge"]
        ELSE [es |-> "Capa", fr |-> "Couche", de |-> "Ebene"]]

\* The texts and the locales translate is called with.
Texts == {"Tools", "Ferramentas", "Vector", "Hello", "Olá", ""}

Locales == {"pt", "en", "es", "fr", "de", "zh"}

\* The first argument of translate: a single string, or a tuple of strings.
Single(t) == [isTuple |-> FALSE, items |-> <<t>>]

Tuple(q) == [isTuple |-> TRUE, items |-> q]

Strings ==
    { Single(t) : t \in Texts }
    \cup { Tuple(q) : q \in UNION { [1..n -> Texts] : n \in 0..MaxItems } }

\* A variant: the dictionary is not looked at.
translateNoDictionary(string, loc) ==
    IF string.isTuple /\ Len(string.items) = 0 THEN "()"
    ELSE IF loc = "pt" \/ loc \in {"es", "fr", "de"}
    THEN (IF string.isTuple /\ Len(string.items) >= 2 THEN string.items[2] ELSE string.items[1])
    ELSE string.items[1]

\* translate(string, loc).  string[0] of an empty tuple raises in each of
\* the three branches; the except branch then returns str(string).
translate(string, loc) ==
    IF string.isTuple /\ Len(string.items) = 0 THEN "()"
    ELSE IF loc = "pt"
    THEN (IF string.isTuple /\ Len(string.items) >= 2 THEN string.items[2] ELSE string.items[1])
    ELSE IF loc \in {"es", "fr", "de"}
    THEN LET textKey == string.items[1]
         IN IF textKey \in DOMAIN dic /\ loc \in DOMAIN dic[textKey] THEN dic[textKey][loc]
            ELSE IF string.isTuple /\ Len(string.items) >= 2 THEN string.items[2]
            ELSE textKey
    ELSE string.items[1]

\* One call of translate.
CallTranslate(string, loc) ==
    /\ tr' = [string |-> string, loc |-> loc, result |-> translate(string, loc)]
    /\ UNCHANGED <<env, editable, geom, pc, rect, lineLayers, index, feats, tolLayer, todo,
                   cur, created, had, msgs, cmdDepth, cmdBegun, ins, geom0, ed0, unwrapped,
                   badEdits, hist, el, tool>>

\* translate reads no layer: the calls are made in an empty project.
InitTR ==
    /\ Init
    /\ env.present = {}
    /\ env.tol = 1
    /\ \A l \in LayerSet : env.setup[l] = "editing"

NextTR == \E string \in Strings : \E loc \in Locales : CallTranslate(string, loc)

SpecTR == InitTR /\ [][NextTR]_vars

\* ------------------------------------------------ what the claims speak of
\* The lines of a completed pass that lie within its rectangle: the features
\* of the participating layers whose geometry meets the rectangle.
PassCands(h) ==
    { f \in DOMAIN h.before :
        /\ LayerOf(f) \in SeqSet(h.ll)
        /\ GeomIntersectsRect(GeomToProj(LayerOf(f), h.before[f]), h.rect) }

\* The vertices a completed pass added, counted on the geometries.
Inserted(h) ==
    SumOver([f \in DOMAIN h.before |-> NumVertices(h.after[f]) - NumVertices(h.before[f])],
            DOMAIN h.before)

\* The points two features share, in project coordinates.
SharedPoints(g, a, b) ==
    CollectPointsFromIntersection(
        Intersection(GeomToProj(LayerOf(a), g[a]), GeomToProj(LayerOf(b), g[b])))

\* How often the point p occurs among the vertices of g.
Occurrences(g, p) ==
    SumOver([k \in 1..Len(g.parts) |->
                Cardinality({ i \in 1..Len(g.parts[k]) : g.parts[k][i] = p })],
            1..Len(g.parts))

NoRepeatedVertex(g) ==
    \A k \in 1..Len(g.parts) :
        \A i \in 1..(Len(g.parts[k]) - 1) : g.parts[k][i] # g.parts[k][i + 1]

\* ------------------------------------------------------------------ C1
\* C1: a second pass with the rectangle, the layers and the tolerance of the
\* pass before it, and no edit in between, inserts nothing: it counts 0
\* created vertices and leaves every feature's vertex sequence as it was.
C1_SecondPassInsertsNothing ==
    \A k \in 2..Len(hist) :
        (/\ hist[k].rect = hist[k - 1].rect
         /\ hist[k].ll = hist[k - 1].ll
         /\ hist[k].before = hist[k - 1].after)
        => /\ hist[k].created = 0
           /\ Inserted(hist[k]) = 0
           /\ hist[k].after = hist[k - 1].after

\* A second pass has run after a first one that created vertices.
C1_Witness ==
    /\ Len(hist) >= 2
    /\ hist[1].created > 0
    /\ hist[2].rect = hist[1].rect
    /\ hist[2].ll = hist[1].ll

\* ------------------------------------------------------------------ C2
\* C2: when the lines within the rectangle are two features that cross at one
\* point inside the rectangle, and neither has a vertex within the tolerance
\* of that point, the pass inserts that point once into each of them, counts
\* 2 created vertices and reports "2 vertices created".
CrossingOnly(h, a, b) ==
    LET gA == GeomToProj(LayerOf(a), h.before[a])
        gB == GeomToProj(LayerOf(b), h.before[b])
        x  == Intersection(gA, gB)
    IN /\ a # b
       /\ PassCands(h) = {a, b}
       /\ x.pieces = {}
       /\ Cardinality(x.points) = 1
       /\ \A p \in x.points :
            /\ InRect(p, h.rect)
            /\ \A v \in Vertices(gA) \cup Vertices(gB) : Dist2(v, p) >= Sq(env.tol)

GotVertex(h, f, p) ==
    LET q == FromProj(LayerOf(f), p)
    IN /\ NumVertices(h.after[f]) = NumVertices(h.before[f]) + 1
       /\ Occurrences(h.after[f], q) = 1
       /\ Vertices(h.after[f]) = Vertices(h.before[f]) \cup {q}

C2_CrossingCreatesTwo ==
    \A k \in 1..Len(hist) :
        \A a, b \in DOMAIN hist[k].before :
            CrossingOnly(hist[k], a, b)
            => /\ hist[k].created = 2
               /\ hist[k].msgs = <<MsgCreated(2)>>
               /\ \A p \in SharedPoints(hist[k].before, a, b) :
                    GotVertex(hist[k], a, p) /\ GotVertex(hist[k], b, p)

C2_Witness ==
    \E k \in 1..Len(hist) :
        \E a, b \in DOMAIN hist[k].before : CrossingOnly(hist[k], a, b)

\* ------------------------------------------------------------------ C3
\* C3: within one pass no feature receives a vertex within the layer
\* tolerance of a vertex it had or of a vertex the pass gave it before, each
\* point is inserted into a feature at most once, and no two consecutive
\* vertices of a changed feature coincide.
C3_NoVertexNearAnother ==
    /\ \A e \in ins :
          LET t2 == Sq(tolLayer[LayerOf(e[1])])
          IN /\ \A v \in Vertices(geom0[e[1]]) : Dist2(v, e[2]) >= t2
             /\ \A d \in ins : (d[1] = e[1] /\ d[2] # e[2]) => Dist2(d[2], e[2]) >= t2
             /\ Occurrences(geom[e[1]], e[2]) = 1
    /\ \A f \in DOMAIN geom : geom[f] # geom0[f] => NoRepeatedVertex(geom[f])

\* A pass is over in which two different partners presented the same point
\* to a feature that received it.
C3_Witness ==
    /\ pc = "pairs"
    /\ todo = {}
    /\ \E e \in ins :
         \E a, b \in DOMAIN geom0 \ {e[1]} :
            /\ a # b
            /\ \A c \in {a, b} :
                 \E p \in AllPairs(lineLayers, feats) :
                    /\ {p[3], p[4]} = {e[1], c}
                    /\ ToProj(LayerOf(e[1]), e[2]) \in PairPoints(Ctx, geom0, p)

\* ------------------------------------------------------------------ C4
\* C4: every vertex a pass inserts lies inside the rectangle of the pass.
C4_InsertedInsideRect ==
    \A e \in ins : InRect(ToProj(LayerOf(e[1]), e[2]), rect)

\* ------------------------------------------------------------------ C5
\* C5: a pass that returns emits exactly one message: "no features" when no
\* line lies within the rectangle, "already shared" when lines within it
\* intersect and no vertex was inserted, and "N vertices created" with N the
\* number of vertices inserted when there is one or more.
C5_OneSummaryPerPass ==
    \A k \in 1..Len(hist) :
        LET h == hist[k]
        IN /\ Len(h.msgs) = 1
           /\ PassCands(h) = {} => h.msgs[1] = MsgNone
           /\ (/\ Inserted(h) = 0
               /\ \E a, b \in PassCands(h) : a # b /\ SharedPoints(h.before, a, b) # {})
              => h.msgs[1] = MsgShared
           /\ Inserted(h) > 0 => h.msgs[1] = MsgCreated(Inserted(h))

\* Passes of all three outcomes have run.
C5_Witness ==
    /\ Len(hist) = 2
    /\ hist[1].msgs[1].kind = "created"
    /\ hist[1].msgs[1].n >= 3
    /\ hist[2].msgs[1].kind = "shared"

\* ------------------------------------------------------------------ C6
\* The pass with its pairs taken in ascending order and the points of each
\* pair in ascending order: the result the other orders are compared with.
TupleLess(a, b) ==
    \E i \in 1..Len(a) : a[i] < b[i] /\ \A j \in 1..(i - 1) : a[j] = b[j]

MinTuple(S) == CHOOSE a \in S : \A b \in S \ {a} : TupleLess(a, b)

RECURSIVE Ascending(_)
Ascending(S) ==
    IF S = {} THEN << >> ELSE <<MinTuple(S)>> \o Ascending(S \ {MinTuple(S)})

RECURSIVE RunPairs(_, _, _)
RunPairs(ctx, acc, S) ==
    IF S = {} THEN acc
    ELSE LET p   == MinTuple(S)
             res == PairStep(ctx, acc.g, p, Ascending(PairPoints(ctx, acc.g, p)))
         IN RunPairs(ctx, [g |-> res.g, n |-> acc.n + res.n], S \ {p})

AscendingPass == RunPairs(Ctx, [g |-> geom0, n |-> 0], AllPairs(lineLayers, feats))

LoopsOver == pc = "pairs" /\ todo = {}

\* C6: whatever the order in which the pairs were visited, the
\* pass ends with the vertex sequences and the created count that the
\* ascending order gives.
C6_AnyOrderSameResult ==
    LoopsOver => (geom = AscendingPass.g /\ created = AscendingPass.n)

\* ------------------------------------------------------------------ C7
\* C7: in a pass that runs to completion every participating layer gets
\* exactly one edit command, open while the loops run and closed after them,
\* and every geometry change of the pass is made inside it.
C7_OneCommandPerLayer ==
    /\ ~unwrapped
    /\ pc = "pairs" => \A l \in SeqSet(lineLayers) : cmdDepth[l] = 1 /\ cmdBegun[l] = 1
    /\ \A k \in 1..Len(hist) :
          \A l \in SeqSet(hist[k].ll) : hist[k].begun[l] = 1 /\ hist[k].depth[l] = 0

\* A pass that changed features of two layers is complete.
C7_Witness ==
    \E k \in 1..Len(hist) :
        /\ Len(hist[k].ll) = 2
        /\ \A l \in LayerSet : \E e \in hist[k].ins : LayerOf(e[1]) = l

\* ------------------------------------------------------------------ C8
\* C8: no geometry change is applied by the extender (to the source or to
\* the target layer) or by the rectangle pass (to a participating layer)
\* while that layer is not in the editable state.
C8_ChangesOnEditableLayers == badEdits = {}

\* ------------------------------------------------------------------ C10
\* The part a is the part b with at most one vertex put before it and at
\* most one after it.
GrownPart(b, a) ==
    \E i \in 0..1, j \in 0..1 : Len(a) = Len(b) + i + j /\ SubSeq(a, 1 + i, Len(b) + i) = b

\* C10: after a run of the extender every feature the run processed has its
\* previous vertices in their order, with at most one more vertex at the
\* start and one more at the end.
C10_VerticesKept ==
    \A k \in 1..Len(el.runs) :
        \A i \in 1..Len(el.runs[k].log) :
            LET f == el.runs[k].log[i].fid
                b == el.runs[k].before[f]
                a == el.runs[k].after[f]
            IN /\ NumVertices(a) >= NumVertices(b)
               /\ NumVertices(a) <= NumVertices(b) + 2
               /\ Len(a.parts) = Len(b.parts)
               /\ \A j \in 1..Len(b.parts) : GrownPart(b.parts[j], a.parts[j])

\* ------------------------------------------- the extender's claims, C11-
\* The line of a feature the extender works on, its two end points and the
\* terminal tangents at them, as the run found them.
OldLine(r, e) == LinePoints(r.before[e.fid])

EndPoint(r, e) == IF e.isStart THEN OldLine(r, e)[1] ELSE OldLine(r, e)[Len(OldLine(r, e))]

Tangent(r, e) ==
    LET p == OldLine(r, e)
        n == Len(p)
    IN IF e.isStart THEN <<p[1][1] - p[2][1], p[1][2] - p[2][2]>>
       ELSE <<p[n][1] - p[n - 1][1], p[n][2] - p[n - 1][2]>>

\* The extensions applied by the completed runs, as <<run, log entry>>.
Extensions ==
    { x \in UNION { { <<k, i>> : i \in 1..Len(el.runs[k].log) } : k \in 1..Len(el.runs) } :
        el.runs[x[1]].log[x[2]].outcome = "extended" }

RunOf(x) == el.runs[x[1]]

EntryOf(x) == el.runs[x[1]].log[x[2]]

\* ------------------------------------------------------------------ C11
\* C11 as stated: an extension relocates the end vertex to the chosen point
\* and adds no vertex to the source feature.
C11_EndpointRelocated ==
    \A x \in Extensions :
        LET old == OldLine(RunOf(x), EntryOf(x))
            new == LinePoints(EntryOf(x).new)
        IN /\ Len(new) = Len(old)
           /\ new = NewLinePointsReplacing(old, EntryOf(x).isStart, EntryOf(x).pt)

\* C11 amended: the geometry an extension writes to the source feature is
\* the feature's line with the chosen point put before its first vertex or
\* after its last one: the former end vertex is kept next to it and the line
\* has one vertex more; on an editable source layer this is the feature's
\* geometry after the run.
C11_EndpointAdded ==
    \A x \in Extensions :
        LET old == OldLine(RunOf(x), EntryOf(x))
            new == LinePoints(EntryOf(x).new)
            n   == Len(old)
        IN /\ Len(new) = n + 1
           /\ IF EntryOf(x).isStart
              THEN new[1] = EntryOf(x).pt /\ SubSeq(new, 2, n + 1) = old
              ELSE new[n + 1] = EntryOf(x).pt /\ SubSeq(new, 1, n) = old
           /\ RunOf(x).edAfter[RunOf(x).args.src]
              => RunOf(x).after[EntryOf(x).fid] = EntryOf(x).new

\* A start and an end were extended on an editable source layer.
C11_Witness ==
    /\ \E x \in Extensions : EntryOf(x).isStart /\ RunOf(x).edAfter[RunOf(x).args.src]
    /\ \E x \in Extensions : ~EntryOf(x).isStart /\ RunOf(x).edAfter[RunOf(x).args.src]

\* ------------------------------------------------------------------ C12
DotWith(v, w) == v[1] * w[1] + v[2] * w[2]

Ahead(q, r, e) ==
    DotWith(<<q[1] - EndPoint(r, e)[1], q[2] - EndPoint(r, e)[2]>>, Tangent(r, e))

\* C12: the point chosen for an extension lies ahead of the end point: its
\* displacement from the end point has a positive dot product with the
\* terminal tangent there.
C12_NeverBehind ==
    \A x \in Extensions : Ahead(EntryOf(x).pt, RunOf(x), EntryOf(x)) > 0

\* An extension was applied although a target feature has points behind the
\* extended end.
C12_Witness ==
    \E x \in Extensions :
        \E t \in DOMAIN RunOf(x).before :
            /\ LayerOf(t) = RunOf(x).args.tgt
            /\ t \notin SeqSet(RunOf(x).args.sel)
            /\ \E q \in ExtLattice :
                 OnGeom(q, RunOf(x).before[t]) /\ Ahead(q, RunOf(x), EntryOf(x)) < 0

\* ------------------------------------------------------------------ C13
\* The target features of a run: those of the target layer but the selected.
TargetsOf(r) ==
    { t \in DOMAIN r.before : LayerOf(t) = r.args.tgt /\ t \notin SeqSet(r.args.sel) }

\* The runs that got to the loop.
LoopRuns == { k \in 1..Len(el.runs) : el.runs[k].args.sel # << >> /\ el.runs[k].args.ok }

\* Scenario A: the one selected feature a and the one target b are single
\* segments on one straight line, apart from each other, b ahead of the end
\* of a with 5 units between the facing end points, all of it on the canvas
\* and the source layer in edit mode.
ScenarioA(r, a, b) ==
    /\ r.args.sel = <<a>>
    /\ TargetsOf(r) = {b}
    /\ ~r.before[a].multi /\ ~r.before[b].multi
    /\ Len(LinePoints(r.before[a])) = 2 /\ Len(LinePoints(r.before[b])) = 2
    /\ LET pa == LinePoints(r.before[a])
           pb == LinePoints(r.before[b])
       IN /\ pa[1] # pa[2] /\ pb[1] # pb[2]
          /\ Cross(pa[1], pa[2], pb[1]) = 0 /\ Cross(pa[1], pa[2], pb[2]) = 0
          /\ Dist2(pa[2], pb[1]) = 25
          /\ Dot(pa[2], pa[1], pb[1]) < 0
          /\ Dot(pb[1], pa[2], pb[2]) < 0
    /\ \A v \in Vertices(r.before[a]) \cup Vertices(r.before[b]) : InRect(v, r.args.cv)
    /\ r.edAfter[r.args.src]

\* C13: in scenario A the run moves the dangling end of the selected
\* segment onto the facing end point of the target and reports that an
\* extension was applied.
C13_CollinearGapClosed ==
    \A k \in LoopRuns :
        \A a, b \in DOMAIN el.runs[k].before :
            ScenarioA(el.runs[k], a, b)
            => LET new == LinePoints(el.runs[k].after[a])
               IN /\ new[Len(new)] = LinePoints(el.runs[k].before[b])[1]
                  /\ "extension complete" \in SeqSet(el.runs[k].msgs)

\* ------------------------------------------------------------------ C14
\* No point of a target of the run lies on the extension line drawn from
\* either end of the feature of log entry e.
RaysFree(r, e) ==
    LET p == OldLine(r, e)
        n == Len(p)
    IN /\ n >= 2
       /\ \A t \in TargetsOf(r) :
            \A q \in ExtLattice :
               OnGeom(q, r.before[t])
               => /\ ~OnGeom(q, ExtLine(p[1], <<p[1][1] - p[2][1], p[1][2] - p[2][2]>>))
                  /\ ~OnGeom(q, ExtLine(p[n], <<p[n][1] - p[n - 1][1], p[n][2] - p[n - 1][2]>>))

CountOf(sq, m) == Cardinality({ i \in 1..Len(sq) : sq[i] = m })

C15_DegenerateSkipped ==
    \A k \in LoopRuns :
        LET r == el.runs[k]
        IN /\ Len(r.log) = Len(r.args.sel)
           /\ \A i \in 1..Len(r.log) :
                /\ Len(OldLine(r, r.log[i])) < 2
                   => r.log[i].outcome \in {"short", "outside"} /\ r.log[i].same
                /\ r.log[i].outcome = "extended" => Tangent(r, r.log[i]) # <<0, 0>>

\* A run skipped a one-vertex feature and then went on to a feature whose
\* first segment has no length while a target lies west of its start.
C15_Witness ==
    \E k \in LoopRuns :
        LET r == el.runs[k]
        IN /\ Len(r.log) = 2
           /\ Len(OldLine(r, r.log[1])) = 1 /\ r.log[1].outcome = "short"
           /\ LET p == OldLine(r, r.log[2])
              IN /\ Len(p) >= 2 /\ p[1] = p[2]
                 /\ \E t \in TargetsOf(r) : \E q \in ExtLattice :
                       OnGeom(q, r.before[t]) /\ q[2] = p[1][2] /\ q[1] < p[1][1]
                 /\ r.log[2].outcome # "extended"

\* ------------------------------------------------------------------ C16
\* The runs that returned before the loop.
EarlyRuns == { k \in 1..Len(el.runs) : el.runs[k].args.sel = << >> \/ ~el.runs[k].args.ok }

\* C16: a run stopped by a failed precondition leaves no partial state: no
\* geometry is changed and no layer's edit mode differs from what it was
\* before the run.
C16_NoPartialState ==
    \A k \in EarlyRuns :
        /\ el.runs[k].after = el.runs[k].before
        /\ el.runs[k].edAfter = el.runs[k].edBefore

\* ------------------------------------------------------------------ C17
\* C17: a point whose transform to the layer fails contributes nothing: no
\* vertex is inserted for it on a feature of that layer.
C17_FailedPointInsertsNothing ==
    /\ \A e \in ins : LayerOf(e[1]) \notin env.fails
    /\ \A k \in 1..Len(hist) : \A e \in hist[k].ins : LayerOf(e[1]) \notin env.fails

\* ------------------------------------------------------------------ C18
\* C18: a pass that an exception ends shows the critical message and no
\* other, keeps the vertices it inserted before, leaves the participating
\* layers in edit mode with the geometries as they were when it failed, and
\* the tool has reset its drag and scheduled the return to the previous tool.
C18_FailureKeepsWork ==
    /\ \A k \in 1..Len(hist) :
          Failed(hist[k])
          => /\ hist[k].msgs = <<MsgCritical>>
             /\ \A e \in hist[k].ins : e[2] \in Vertices(hist[k].after[e[1]])
             /\ hist[k].ins # {} => hist[k].after # hist[k].before
    /\ (pc = "idle" /\ hist # << >> /\ Failed(hist[Len(hist)]))
       => /\ geom = hist[Len(hist)].after
          /\ \A l \in SeqSet(hist[Len(hist)].ll) : editable[l]
          /\ \A l \in LayerSet : hist[Len(hist)].edBefore[l] => editable[l]
          /\ ~tool.startPt
          /\ tool.back = Len(hist)

\* A pass failed after it had inserted vertices, on a layer it had put into
\* edit mode itself.
C18_Witness ==
    /\ pc = "idle"
    /\ hist # << >>
    /\ Failed(hist[Len(hist)])
    /\ hist[Len(hist)].ins # {}
    /\ \E l \in SeqSet(hist[Len(hist)].ll) : ~hist[Len(hist)].edBefore[l]

\* ------------------------------------------------------------------ C19
\* C19: a run shows one message, the terminal one; no feature opens a
\* dialog of its own.
C19_SingleTerminalMessage ==
    \A k \in 1..Len(el.runs) : Len(el.runs[k].msgs) = 1

\* ------------------------------------------------------------------ C20
\* C20: the move of the end on the source and the vertex added to the
\* target are one entry of an undo stack: one undo reverts both.
C20_JointUndo ==
    el.pc = "idle" =>
    \A x \in Extensions :
        (EntryOf(x).added /\ RunOf(x).edAfter[RunOf(x).args.src]
                          /\ RunOf(x).edAfter[RunOf(x).args.tgt])
        => \E l \in LayerSet : \E i \in 1..Len(el.undo[l]) :
              {EntryOf(x).fid, EntryOf(x).tid} \subseteq el.undo[l][i]

\* ------------------------------------------------------------------ C21
IsPair(string) == string.isTuple /\ Len(string.items) = 2

TangentAt(r, e, atStart) ==
    LET p == OldLine(r, e)
        n == Len(p)
    IN IF atStart THEN <<p[1][1] - p[2][1], p[1][2] - p[2][2]>>
       ELSE <<p[n][1] - p[n - 1][1], p[n][2] - p[n - 1][2]>>

EndAt(r, e, atStart) == IF atStart THEN OldLine(r, e)[1] ELSE OldLine(r, e)[Len(OldLine(r, e))]

\* The points an extension line has in common with the targets of the run,
\* ahead of the end and away from it.
Candidates(r, e, atStart) ==
    { q \in ExtLattice :
        /\ OnGeom(q, ExtLine(EndAt(r, e, atStart), TangentAt(r, e, atStart)))
        /\ \E t \in TargetsOf(r) : OnGeom(q, r.before[t])
        /\ DotWith(<<q[1] - EndAt(r, e, atStart)[1], q[2] - EndAt(r, e, atStart)[2]>>,
                   TangentAt(r, e, atStart)) > 0
        /\ Dist2(EndAt(r, e, atStart), q) > 0 }

ClosestOf(r, e, atStart, h) ==
    IF Candidates(r, e, atStart) = {} THEN h = NoHit
    ELSE /\ h.pt \in Candidates(r, e, atStart)
         /\ \A q \in Candidates(r, e, atStart) :
               Dist2(EndAt(r, e, atStart), h.pt) <= Dist2(EndAt(r, e, atStart), q)

\* C22: for either end find_closest_intersection returns the nearest of the
\* points the extension line shares with the targets ahead of the end and
\* away from it, and no point when there is none.
C22_ClosestAhead ==
    \A k \in LoopRuns :
        \A i \in 1..Len(el.runs[k].log) :
            Len(OldLine(el.runs[k], el.runs[k].log[i])) >= 2
            => /\ ClosestOf(el.runs[k], el.runs[k].log[i], TRUE, el.runs[k].log[i].hs)
               /\ ClosestOf(el.runs[k], el.runs[k].log[i], FALSE, el.runs[k].log[i].he)

\* ------------------------------------------------------------------ C23
\* The end of the line of log entry e touches a target of the run.
Connected(r, e, atStart) == \E t \in TargetsOf(r) : OnGeom(EndAt(r, e, atStart), r.before[t])

\* C23: an end that already touches a target is not the one extended,
\* whatever the other end does, and a feature with both ends touching keeps
\* its geometry.
C23_ConnectedEndKept ==
    \A k \in LoopRuns :
        \A i \in 1..Len(el.runs[k].log) :
            LET r == el.runs[k]
                e == el.runs[k].log[i]
            IN (Len(OldLine(r, e)) >= 2 /\ RectsIntersect(BBox(r.before[e.fid]), r.args.cv))
               => /\ (Connected(r, e, TRUE) /\ e.outcome = "extended") => ~e.isStart
                  /\ (Connected(r, e, FALSE) /\ e.outcome = "extended") => e.isStart
                  /\ (Connected(r, e, TRUE) /\ Connected(r, e, FALSE))
                     => e.outcome = "touching" /\ e.same

\* A feature whose start touched a target was extended at its end, and in
\* the next run both its ends touched.
C23_Witness ==
    /\ \E x \in Extensions :
          Connected(RunOf(x), EntryOf(x), TRUE) /\ ~EntryOf(x).isStart
    /\ \E k \in LoopRuns : \E i \in 1..Len(el.runs[k].log) :
          /\ el.runs[k].log[i].outcome = "touching"
          /\ Connected(el.runs[k], el.runs[k].log[i], TRUE)
          /\ Connected(el.runs[k], el.runs[k].log[i], FALSE)

\* ------------------------------------------------------------------ C24
\* What run keeps of find_closest_intersection for an end: nothing for an
\* end that touches a target.
Found(r, e, atStart) ==
    IF Connected(r, e, atStart) THEN NoHit ELSE IF atStart THEN e.hs ELSE e.he

\* C24: a run changes at most one end of a selected feature; with a
\* qualifying intersection at both ends the start is extended only when
\* its intersection is strictly nearer, the end otherwise (also on equal
\* distances), and the other end stays as it was.
C24_OneEndPerRun ==
    \A k \in LoopRuns :
        \A i \in 1..Len(el.runs[k].log) :
            LET r   == el.runs[k]
                e   == el.runs[k].log[i]
                old == OldLine(r, e)
                new == LinePoints(r.after[e.fid])
                n   == Len(old)
            IN /\ r.after[e.fid] # r.before[e.fid]
                  => /\ e.outcome = "extended"
                     /\ Len(new) = n + 1
                     /\ IF e.isStart THEN SubSeq(new, 2, n + 1) = old ELSE SubSeq(new, 1, n) = old
               /\ (e.outcome = "extended" /\ Found(r, e, TRUE) # NoHit /\ Found(r, e, FALSE) # NoHit)
                  => IF Found(r, e, TRUE).d2 < Found(r, e, FALSE).d2
                     THEN e.isStart /\ e.pt = Found(r, e, TRUE).pt
                     ELSE ~e.isStart /\ e.pt = Found(r, e, FALSE).pt

\* Both ends of a feature had an intersection at the same distance and the
\* end was extended, on an editable layer.
C24_Witness ==
    \E x \in Extensions :
        /\ Found(RunOf(x), EntryOf(x), TRUE) # NoHit
        /\ Found(RunOf(x), EntryOf(x), FALSE) # NoHit
        /\ Found(RunOf(x), EntryOf(x), TRUE).d2 = Found(RunOf(x), EntryOf(x), FALSE).d2
        /\ ~EntryOf(x).isStart
        /\ RunOf(x).after[EntryOf(x).fid] # RunOf(x).before[EntryOf(x).fid]

\* ------------------------------------------------------------------ C29
\* C29: when the target layer is the source layer no selected feature is a
\* target of the run: none is indexed, no end is moved onto one as the
\* chosen target, and none is changed except by its own extension; when the
\* layers differ every feature of the target layer is indexed.
C29_SelectedNeverTargets ==
    /\ el.pc = "loop"
       => DOMAIN el.idx = IF el.src = el.tgt THEN FeatsOf(el.tgt) \ SeqSet(el.sel)
                          ELSE FeatsOf(el.tgt)
    /\ \A k \in LoopRuns :
          LET r == el.runs[k]
          IN r.args.src = r.args.tgt
             => /\ \A i \in 1..Len(r.log) :
                      r.log[i].outcome = "extended" => r.log[i].tid \notin SeqSet(r.args.sel)
                /\ \A f \in SeqSet(r.args.sel) :
                      r.after[f] # r.before[f]
                      => \E i \in 1..Len(r.log) :
                            /\ r.log[i].fid = f
                            /\ r.log[i].outcome = "extended"
                            /\ r.after[f] = r.log[i].new

\* A run within one layer in which the ray of a selected feature meets
\* another selected feature at a point ahead of it, and the feature was
\* not extended to it.
C29_Witness ==
    \E k \in LoopRuns :
        LET r == el.runs[k]
        IN /\ r.args.src = r.args.tgt
           /\ \E i \in 1..Len(r.log) : \E f \in SeqSet(r.args.sel) \ {r.log[i].fid} :
                 LET e   == r.log[i]
                     old == OldLine(r, e)
                 IN /\ Len(old) >= 2
                    /\ \E q \in ExtLattice :
                          /\ OnGeom(q, r.before[f])
                          /\ OnGeom(q, ExtLine(EndAt(r, e, FALSE), TangentAt(r, e, FALSE)))
                          /\ DotWith(<<q[1] - EndAt(r, e, FALSE)[1], q[2] - EndAt(r, e, FALSE)[2]>>,
                                     TangentAt(r, e, FALSE)) > 0
                    /\ e.outcome = "nolines"

\* ------------------------------------------------------------------ C30
\* The intersection a run chooses for a feature: that of the start when it
\* is strictly nearer than that of the end, else that of the end.
Chosen(r, e) ==
    IF CloserThan(Found(r, e, TRUE), Found(r, e, FALSE)) THEN Found(r, e, TRUE)
    ELSE Found(r, e, FALSE)

\* C30: the iteration of a selected feature whose bounding box does not
\* meet the canvas extent changes no geometry, and neither does the
\* iteration of a feature whose chosen intersection point lies outside the
\* canvas extent, whatever the other end has found.
C30_OutOfViewUntouched ==
    \A k \in LoopRuns :
        \A i \in 1..Len(el.runs[k].log) :
            LET r == el.runs[k]
                e == el.runs[k].log[i]
            IN /\ ~RectsIntersect(BBox(r.before[e.fid]), r.args.cv)
                  => e.same /\ e.outcome # "extended"
               /\ (Len(OldLine(r, e)) >= 2 /\ Chosen(r, e) # NoHit
                   /\ ~InRect(Chosen(r, e).pt, r.args.cv))
                  => e.same /\ e.outcome # "extended"

\* The chosen intersection of a feature in view lay outside the canvas
\* while its other end had found one inside it, and the feature was left.
C30_Witness ==
    \E k \in LoopRuns : \E i \in 1..Len(el.runs[k].log) :
        LET r == el.runs[k]
            e == el.runs[k].log[i]
        IN /\ RectsIntersect(BBox(r.before[e.fid]), r.args.cv)
           /\ Len(OldLine(r, e)) >= 2
           /\ Found(r, e, TRUE) # NoHit /\ Found(r, e, FALSE) # NoHit
           /\ ~InRect(Chosen(r, e).pt, r.args.cv)
           /\ \E b \in BOOLEAN : Found(r, e, b) # Chosen(r, e) /\ InRect(Found(r, e, b).pt, r.args.cv)
           /\ e.same
           /\ r.edBefore[r.args.src]

\* ------------------------------------------------------------------ C25
\* The feature f of layer l meets the rectangle of the pass.
MeetsRect(l, f) == ~IsEmpty(geom[f]) /\ GeomIntersectsRect(GeomToProj(l, geom[f]), rect)

\* The points the two features of the pair p have in common.
CrossPoints(p) ==
    IF IsEmpty(geom[p[3]]) \/ IsEmpty(geom[p[4]]) THEN {}
    ELSE CollectPointsFromIntersection(
             Intersection(GeomToProj(lineLayers[p[1]], geom[p[3]]),
                          GeomToProj(lineLayers[p[2]], geom[p[4]])))

\* The step visits the pair p.
Visits(p) == pc = "pairs" /\ p \in todo /\ todo' = todo \ {p}

\* C25 as stated: a pair of which one feature or both meet the rectangle
\* goes on to the intersection, so that common points of the two are found.
C25_SkippedWhenNeither ==
    [][\A p \in todo :
          (Visits(p) /\ CrossPoints(p) # {}
           /\ (MeetsRect(lineLayers[p[1]], p[3]) \/ MeetsRect(lineLayers[p[2]], p[4])))
          => had']_vars

\* C25: a pair is skipped on the rectangle test when one of its features
\* does not meet the rectangle, and then nothing is found or changed; a pair
\* of which both features meet the rectangle goes on to the intersection.
C25_SkippedUnlessBoth ==
    [][\A p \in todo :
          Visits(p)
          => /\ ~(MeetsRect(lineLayers[p[1]], p[3]) /\ MeetsRect(lineLayers[p[2]], p[4]))
                => UNCHANGED <<geom, had, created, ins>>
             /\ (MeetsRect(lineLayers[p[1]], p[3]) /\ MeetsRect(lineLayers[p[2]], p[4])
                 /\ CrossPoints(p) # {})
                => had']_vars

\* The pairs the loops have visited.
Visited == IF pc = "pairs" THEN AllPairs(lineLayers, feats) \ todo ELSE {}

\* A pair was visited of which exactly one feature meets the rectangle,
\* the two having a point in common, and nothing was found in the pass.
C25_Witness ==
    \E p \in Visited :
        /\ MeetsRect(lineLayers[p[1]], p[3]) # MeetsRect(lineLayers[p[2]], p[4])
        /\ CrossPoints(p) # {}
        /\ ~had /\ ins = {}

\* ------------------------------------------------------------------ C27
\* C27: when the release handler has returned, after a pass that ended
\* normally or by an exception, no layer has an open edit command.
C27_CommandsClosed ==
    /\ \A k \in 1..Len(hist) : \A l \in LayerSet : hist[k].depth[l] = 0
    /\ pc = "idle" => \A l \in LayerSet : cmdDepth[l] = 0

\* ------------------------------------------------------------------ C26
\* C26: a vertex a pass of the rectangle tool has inserted into a feature is
\* a vertex of the feature for the rest of the pass and when the pass is
\* over, and so is the point a run of the extender has added to a line or
\* inserted into a target, on the layers that take the writes.
C26_EarlierInsertsKept ==
    /\ \A e \in ins : e[2] \in Vertices(geom[e[1]])
    /\ \A k \in 1..Len(hist) : \A e \in hist[k].ins : e[2] \in Vertices(hist[k].after[e[1]])
    /\ \A i \in 1..Len(el.log) :
          el.log[i].outcome = "extended"
          => /\ editable[el.src] => el.log[i].pt \in Vertices(geom[el.log[i].fid])
             /\ (el.log[i].added /\ editable[el.tgt])
                => el.log[i].pt \in Vertices(geom[el.log[i].tid])
    /\ \A k \in LoopRuns : \A i \in 1..Len(el.runs[k].log) :
          LET r == el.runs[k]
              e == el.runs[k].log[i]
          IN e.outcome = "extended"
             => /\ r.edAfter[r.args.src] => e.pt \in Vertices(r.after[e.fid])
                /\ (e.added /\ r.edAfter[r.args.tgt]) => e.pt \in Vertices(r.after[e.tid])

\* A pass has inserted into one feature the points at which two other
\* features cross it, one pair after the other.
C26_Witness ==
    \E f \in DOMAIN geom : \E a, b \in DOMAIN geom \ {f} :
       \E ef, ea, eb, ef2 \in ins :
          /\ a # b
          /\ ef[1] = f /\ ef2[1] = f /\ ea[1] = a /\ eb[1] = b
          /\ ToProj(LayerOf(f), ef[2]) = ToProj(LayerOf(a), ea[2])
          /\ ToProj(LayerOf(f), ef2[2]) = ToProj(LayerOf(b), eb[2])
          /\ ef # ef2
          /\ {ef[2], ef2[2]} \subseteq Vertices(geom[f])

\* A run of the extender has extended two lines onto one target, which got
\* a vertex from each.
C26_WitnessExtender ==
    \E k \in LoopRuns : \E i, j \in 1..Len(el.runs[k].log) :
        LET r == el.runs[k]
        IN /\ i < j
           /\ r.log[i].outcome = "extended" /\ r.log[j].outcome = "extended"
           /\ r.log[i].added /\ r.log[j].added
           /\ r.log[i].tid = r.log[j].tid
           /\ r.log[i].pt # r.log[j].pt
           /\ {r.log[i].pt, r.log[j].pt} \subseteq Vertices(r.after[r.log[i].tid])

\* ------------------------------------------------------------------ C28
\* A step in which a pass begins.
PassBegins == pc = "idle" /\ (pc' = "pairs" \/ Len(hist') > Len(hist))

\* What a step that runs no pass leaves alone.
PassVars ==
    <<editable, geom, pc, rect, lineLayers, index, feats, tolLayer, todo, cur, created, had,
      msgs, cmdDepth, cmdBegun, ins, geom0, ed0, unwrapped, badEdits, hist>>

\* C28: a pass begins only with a press pending, and a press is pending
\* only from a left press until the next right press or processed release;
\* a right press clears the pending press and changes nothing of the layers
\* or of the passes, a release without a pending press changes nothing, and
\* when a pass is over no press is pending.
C28_PassOnlyAfterPress ==
    [][/\ PassBegins => tool.startPt
       /\ (tool'.startPt /\ ~tool.startPt) => UNCHANGED PassVars /\ pc = "idle"
       /\ tool'.cancels # tool.cancels => ~tool'.startPt /\ UNCHANGED PassVars
       /\ (pc = "idle" /\ ~tool.startPt) => UNCHANGED PassVars
       /\ Len(hist') > Len(hist) => ~tool'.startPt /\ tool'.back = tool.back + 1]_vars

\* A drag was cancelled by the right button, a release came without a
\* pending press, and a drag was processed that inserted vertices.
C28_Witness ==
    /\ tool.aborted
    /\ tool.ignored
    /\ pc = "idle"
    /\ hist # << >>
    /\ hist[Len(hist)].ins # {}
    /\ ~tool.startPt

\* ------------------------------------------------------------------ C9
\* A pass that changed nothing and had no participating layer.
Aborted(h) == h.ll = << >> /\ h.after = h.before

\* C9 as stated: a visible line layer that is not editable when the pass
\* begins is put into edit mode and takes part, or the pass is aborted.
C9_EditModeOrAbort ==
    \A k \in 1..Len(hist) :
        \A l \in LayerSet :
            (Visible(l) /\ ~hist[k].edBefore[l])
            => (l \in SeqSet(hist[k].ll) /\ editable[l]) \/ Aborted(hist[k])

\* C9 amended: such a layer is put into edit mode and takes part when
\* startEditing succeeds; when it is refused the layer is left out of the
\* pass, stays out of edit mode and keeps its geometries, the pass goes on
\* with the other layers and emits its one summary and no other message.
C9_EditModeOrLeftOut ==
    \A k \in 1..Len(hist) :
        \A l \in LayerSet :
            (Visible(l) /\ ~hist[k].edBefore[l])
            => IF CanStart(l)
               THEN l \in SeqSet(hist[k].ll) /\ editable[l]
               ELSE /\ l \notin SeqSet(hist[k].ll)
                    /\ ~editable[l]
                    /\ \A f \in FeatsOf(l) : hist[k].after[f] = hist[k].before[f]
                    /\ Len(hist[k].msgs) = 1

\* A pass left a refusing layer out and changed features of another layer,
\* although a line of the refusing layer crosses them in the rectangle.
C9_Witness ==
    \E k \in 1..Len(hist) :
        \E l \in LayerSet :
            /\ Visible(l) /\ ~hist[k].edBefore[l] /\ ~CanStart(l)
            /\ hist[k].created > 0
            /\ \E f \in FeatsOf(l) :
                 GeomIntersectsRect(GeomToProj(l, hist[k].before[f]), hist[k].rect)

====
